---- MODULE Spec2Model ----
(***************************************************************************)
(* A model of nchelpers.CFDataset: the metadata queries of a CF dataset    *)
(* stored in a NetCDF file.  The dataset (dimensions, variables with their *)
(* attributes and numeric values, global attributes) is the state; every   *)
(* query is an action that records its outcome in `last`.  Strings are     *)
(* TLA+ strings, used as character sequences (Len, \o, SubSeq, Head, Tail).*)
(***************************************************************************)
EXTENDS Integers, Sequences, FiniteSets, TLC

VARIABLES
    dimensions,   \* self.dimensions: the dimension names, in file order
    variables,    \* self.variables: name -> [dimensions, attrs, data]
    ncattrs,      \* the global attributes: name -> value
    hashseed,     \* the interpreter's string hash seed (fixed per process)
    input,        \* the argument the caller passes to the queries that take one
    last,         \* the most recent call: [op, arg, res]
    returned      \* every string unique_id has returned for this dataset

vars == <<dimensions, variables, ncattrs, hashseed, input, last, returned>>

-----------------------------------------------------------------------------
(* Bounds of the model *)

MaxDims == 2        \* dimensions of a dataset of the axis families
MaxNames == 2       \* length of a dim_names argument
MaxSteps == 5       \* time steps of a dataset of the time family
MaxIdSteps == 2     \* time steps of a dataset of the unique-id family

-----------------------------------------------------------------------------
(* Generic helpers *)

Range(s) == {s[i] : i \in 1..Len(s)}

SeqsUpTo(S, n) == UNION {[1..k -> S] : k \in 0..n}

NoDupSeqsUpTo(S, n) ==
    {s \in SeqsUpTo(S, n) : \A i, j \in 1..Len(s) : i # j => s[i] # s[j]}

\* a Python call either returns a value or raises an exception of some kind
Ok(v) == [ok |-> TRUE, val |-> v, err |-> ""]
Raise(kind) == [ok |-> FALSE, val |-> <<>>, err |-> kind]

\* the record of a call: the operation, its argument, its outcome and whether
\* the dimension list of the dataset was read
Outcome(op, arg, res, reads) == [op |-> op, arg |-> arg, res |-> res, reads |-> reads]

\* Python's None and a present value, for results that may be None
None == <<>>
Some(v) == <<v>>

\* hasattr(obj, name) / name in mapping
Has(f, name) == name \in DOMAIN f

EmptyMap == [k \in {} |-> ""]

-----------------------------------------------------------------------------
(* Strings *)

StartsWith(s, p) == Len(s) >= Len(p) /\ SubSeq(s, 1, Len(p)) = p

\* Python's `p in s` for strings
Contains(s, p) ==
    \E i \in 1..(Len(s) - Len(p) + 1) : SubSeq(s, i, i + Len(p) - 1) = p

\* the positions of the character a in s
Positions(s, a) == {i \in 1..Len(s) : SubSeq(s, i, i) = a}

\* s with the character at position i replaced by b
ReplaceAt(s, i, b) == SubSeq(s, 1, i - 1) \o b \o SubSeq(s, i + 1, Len(s))

\* s with the characters at the positions of the set `at` replaced by b
RECURSIVE ReplaceAll(_, _, _)
ReplaceAll(s, at, b) ==
    IF at = {} THEN s
    ELSE ReplaceAll(ReplaceAt(s, CHOOSE x \in at : TRUE, b),
                    at \ {CHOOSE x \in at : TRUE}, b)

\* str.replace(a, b) for single characters a and b
StrReplace(s, a, b) == ReplaceAll(s, Positions(s, a), b)

RECURSIVE StrJoin(_, _)
\* sep.join(seq)
StrJoin(seq, sep) ==
    IF Len(seq) = 0 THEN ""
    ELSE IF Len(seq) = 1 THEN seq[1]
    ELSE seq[1] \o sep \o StrJoin(Tail(seq), sep)

UpperCase == "ABCDEFGHIJKLMNOPQRSTUVWXYZ"

\* the position of a capital letter in code point order
CodePoint(c) == CHOOSE i \in 1..Len(UpperCase) : SubSeq(UpperCase, i, i) = c

RECURSIVE SortedSeq(_)
\* sorted(S) for a set of capital letters
SortedSeq(S) ==
    IF S = {} THEN <<>>
    ELSE LET m == CHOOSE x \in S : \A y \in S : CodePoint(x) <= CodePoint(y)
         IN <<m>> \o SortedSeq(S \ {m})

-----------------------------------------------------------------------------
(* Axis resolver *)

\* CFDataset.dim_names(var_name)
DimNames(var_name) ==
    IF var_name # ""
    THEN IF Has(variables, var_name)
         THEN Ok(variables[var_name].dimensions)
         ELSE Raise("KeyError")
    ELSE Ok(dimensions)

\* the dict dim_to_axis of dim_axes_from_names
dim_to_axis ==
    [d \in {"lat", "latitude", "lon", "longitude", "xc", "yc", "x", "y",
            "time", "timeofyear", "plev", "lev", "level"} |->
        CASE d \in {"lat", "latitude", "yc", "y"} -> "Y"
          [] d \in {"lon", "longitude", "xc", "x"} -> "X"
          [] d \in {"time", "timeofyear"} -> "T"
          [] d \in {"plev", "lev", "level"} -> "Z"]

\* a dim_names argument: None, or a sequence of names
NoArg == [given |-> FALSE, names |-> <<>>]
Arg(names) == [given |-> TRUE, names |-> names]

\* `if not dim_names: dim_names = self.dim_names()`
EffectiveNames(arg) ==
    IF (~arg.given) \/ Len(arg.names) = 0 THEN DimNames("").val ELSE arg.names

\* whether the call reads the dataset's dimension list
ReadsDimensions(arg) == (~arg.given) \/ Len(arg.names) = 0

RECURSIVE DictFromPairs(_)
\* a dict built by inserting <<key, value>> pairs in order: a later value of a
\* key replaces the earlier one and the key keeps its first position
DictFromPairs(pairs) ==
    IF Len(pairs) = 0 THEN <<>>
    ELSE LET n == Len(pairs)
             init == DictFromPairs(SubSeq(pairs, 1, n - 1))
             p == pairs[n]
         IN IF \E i \in 1..Len(init) : init[i][1] = p[1]
            THEN [i \in 1..Len(init) |->
                    IF init[i][1] = p[1] THEN p ELSE init[i]]
            ELSE Append(init, p)

\* an ordered dict (a sequence of pairs with distinct keys) as a mapping
AsMap(d) ==
    [k \in {d[i][1] : i \in 1..Len(d)} |->
        (CHOOSE i \in 1..Len(d) : d[i][1] = k) \* unique
    ]

MapOf(d) == LET ix == AsMap(d) IN [k \in DOMAIN ix |-> d[ix[k]][2]]

\* the sub-sequence of the recognised names of dim_names
RECURSIVE Recognised(_)
Recognised(names) ==
    IF Len(names) = 0 THEN <<>>
    ELSE IF Has(dim_to_axis, Head(names))
         THEN <<Head(names)>> \o Recognised(Tail(names))
         ELSE Recognised(Tail(names))

\* a comprehension that keeps the first dimension of an axis, not the last
AxisToDimKeepFirst(names) ==
    LET rec == Recognised(names)
        first == {i \in 1..Len(rec) :
                    \A j \in 1..(i - 1) : dim_to_axis[rec[j]] # dim_to_axis[rec[i]]}
    IN DictFromPairs([i \in 1..Len(rec) |->
            <<dim_to_axis[rec[i]],
              rec[CHOOSE j \in first : dim_to_axis[rec[j]] = dim_to_axis[rec[i]]]>>])

\* the dict comprehension of dim_axes_from_names, as an ordered dict
AxisToDim(names) ==
    LET rec == Recognised(names)
    IN DictFromPairs([i \in 1..Len(rec) |-> <<dim_to_axis[rec[i]], rec[i]>>])

\* CFDataset.dim_axes_from_names(dim_names): axis -> dimension name
DimAxesFromNames(arg) == MapOf(AxisToDim(EffectiveNames(arg)))

\* the override loop of dim_axes: the loop variable is the axis code, and it
\* is the axis code that is looked up in self.dimensions and self.variables
Override(entry) ==
    LET axis == entry[1]
    IN IF axis \in Range(dimensions) /\ Has(variables, axis)
          /\ Has(variables[axis].attrs, "axis")
       THEN IF Has(variables[axis].attrs, "compress")
            THEN <<axis, "S">>
            ELSE <<axis, variables[axis].attrs["axis"]>>
       ELSE entry

\* CFDataset.dim_axes(dim_names): dimension name -> axis
DimAxes(arg) ==
    LET names == EffectiveNames(arg)
    IN IF Len(names) = 0 THEN EmptyMap
       ELSE LET guess == AxisToDim(names)
                axis_to_dim == [i \in 1..Len(guess) |-> Override(guess[i])]
            IN MapOf(DictFromPairs(
                   [i \in 1..Len(axis_to_dim) |->
                       <<axis_to_dim[i][2], axis_to_dim[i][1]>>]))

-----------------------------------------------------------------------------
(* Climatology detector *)

\* `'climatology' in self.variables[time_axis]`: membership in the values of
\* the variable, which are numbers, so that no element equals the string
InValues(s, var_name) == FALSE

\* climatology_bounds_var_name once time_axis = axes['T'] is known
ClimatologyOfAxis(time_axis) ==
    IF ~Has(variables, time_axis) THEN Raise("KeyError")
    ELSE IF InValues("climatology", time_axis)
         THEN IF Has(variables[time_axis].attrs, "climatology")
              THEN Ok(Some(variables[time_axis].attrs["climatology"]))
              ELSE Raise("AttributeError")
         ELSE Ok(None)

\* climatology_bounds_var_name for axes = self.dim_axes()
ClimatologyOfAxes(axes) ==
    IF Has(axes, "T") THEN ClimatologyOfAxis(axes["T"]) ELSE Ok(None)

\* CFDataset.climatology_bounds_var_name
ClimatologyBoundsVarName == ClimatologyOfAxes(DimAxes(NoArg))

\* bool(...) of a result that is None or a string
Truthy(r) == IF r.ok THEN Ok(r.val # None /\ r.val # Some("")) ELSE r

\* CFDataset.is_multi_year_mean
IsMultiYearMean == Truthy(ClimatologyBoundsVarName)

-----------------------------------------------------------------------------
(* Time analyzer *)

Digits == "0123456789"

IsDigit(c) == \E i \in 1..Len(Digits) : SubSeq(Digits, i, i) = c

DigitVal(c) == (CHOOSE i \in 1..Len(Digits) : SubSeq(Digits, i, i) = c) - 1

Digit(d) == SubSeq(Digits, d + 1, d + 1)

\* strftime's zero-padded fields
Pad2(n) == Digit((n \div 10) % 10) \o Digit(n % 10)
Pad4(n) == Pad2(n \div 100) \o Pad2(n % 100)

Num2(s, i) == 10 * DigitVal(SubSeq(s, i, i)) + DigitVal(SubSeq(s, i + 1, i + 1))

\* the position of the first " since " of a units string, 0 when none
SinceAt(units) == {i \in 1..(Len(units) - 6) : SubSeq(units, i, i + 6) = " since "}

SincePos(units) ==
    IF SinceAt(units) = {} THEN 0
    ELSE CHOOSE i \in SinceAt(units) : \A j \in SinceAt(units) : i <= j

\* the unit name and the reference date of a units string
UnitToken(units) == SubSeq(units, 1, SincePos(units) - 1)
Reference(units) == SubSeq(units, SincePos(units) + 7, Len(units))

\* num2date's unit names (it takes singular and capitalised forms too)
DecodeSeconds(token) ==
    CASE token \in {"days", "day", "Days"} -> 86400
      [] token \in {"hours", "hour", "Hours"} -> 3600
      [] token \in {"minutes", "minute"} -> 60
      [] token \in {"seconds", "second"} -> 1
      [] OTHER -> 0

\* a reference date YYYY-MM-DD (of a day every month of every calendar has)
IsDate(r) ==
    /\ Len(r) = 10
    /\ \A i \in {1, 2, 3, 4, 6, 7, 9, 10} : IsDigit(SubSeq(r, i, i))
    /\ SubSeq(r, 5, 5) = "-" /\ SubSeq(r, 8, 8) = "-"
    /\ Num2(r, 6) \in 1..12 /\ Num2(r, 9) \in 1..28

\* the calendars of the model: every year has the same months
MonthLengths(calendar) ==
    IF calendar = "360_day"
    THEN [m \in 1..12 |-> 30]
    ELSE <<31, 28, 31, 30, 31, 30, 31, 31, 30, 31, 30, 31>>

RECURSIVE SumTo(_, _)
SumTo(s, n) == IF n = 0 THEN 0 ELSE s[n] + SumTo(s, n - 1)

YearLength(calendar) == SumTo(MonthLengths(calendar), 12)

\* whether num2date can decode values with these units and this calendar
Decodable(units, calendar) ==
    /\ SincePos(units) > 1
    /\ DecodeSeconds(UnitToken(units)) > 0
    /\ IsDate(Reference(units))
    /\ calendar \in {"365_day", "noleap", "360_day"}

\* the day number of a date YYYY-MM-DD, counted from 0000-01-01
DayOfDate(ref, calendar) ==
    (100 * Num2(ref, 1) + Num2(ref, 3)) * YearLength(calendar)
    + SumTo(MonthLengths(calendar), Num2(ref, 6) - 1) + Num2(ref, 9) - 1

\* the month of a day of the year (0 for 1 January)
MonthOfDay(doy, ml) ==
    CHOOSE m \in 1..12 : SumTo(ml, m - 1) <= doy /\ doy < SumTo(ml, m)

\* the date [year, month, day] of a day number
DateOfDay(day, ml, yl) ==
    [year |-> day \div yl,
     month |-> MonthOfDay(day % yl, ml),
     day |-> (day % yl) - SumTo(ml, MonthOfDay(day % yl, ml) - 1) + 1]

\* num2date(n, units, calendar): the date of a number
Num2Date(n, units, calendar) ==
    DateOfDay(DayOfDate(Reference(units), calendar)
                + ((n * DecodeSeconds(UnitToken(units))) \div 86400),
              MonthLengths(calendar), YearLength(calendar))

\* datetime.strftime(format)
StrfTime(d, format) ==
    CASE format = "%Y" -> Pad4(d.year)
      [] format = "%Y%m" -> Pad4(d.year) \o Pad2(d.month)
      [] format = "%Y%m%d" -> Pad4(d.year) \o Pad2(d.month) \o Pad2(d.day)

\* time_steps for t = self.variables[time_axis]
TimeStepsOfVar(t) ==
    IF ~(Has(t.attrs, "units") /\ Has(t.attrs, "calendar"))
    THEN Raise("AssertionError")
    ELSE IF ~Decodable(t.attrs["units"], t.attrs["calendar"])
    THEN Raise("ValueError")
    ELSE Ok([units |-> t.attrs["units"],
             calendar |-> t.attrs["calendar"],
             numeric |-> t.data,
             datetime |-> [i \in 1..Len(t.data) |->
                 Num2Date(t.data[i], t.attrs["units"], t.attrs["calendar"])]])

\* time_steps for axes = self.dim_axes_from_names()
TimeStepsOfAxes(axes) ==
    IF ~Has(axes, "T") THEN Raise("ValueError")
    ELSE IF ~Has(variables, axes["T"]) THEN Raise("KeyError")
    ELSE TimeStepsOfVar(variables[axes["T"]])

\* CFDataset.time_steps
TimeSteps == TimeStepsOfAxes(DimAxesFromNames(NoArg))

SeqMin(s) == CHOOSE x \in Range(s) : \A y \in Range(s) : x <= y
SeqMax(s) == CHOOSE x \in Range(s) : \A y \in Range(s) : x >= y

\* time_range for self.time_steps
TimeRangeOf(ts) ==
    IF ~ts.ok THEN ts
    ELSE IF Len(ts.val.numeric) = 0 THEN Raise("ValueError")
    ELSE Ok(<<SeqMin(ts.val.numeric), SeqMax(ts.val.numeric)>>)

\* CFDataset.time_range
TimeRange == TimeRangeOf(TimeSteps)

\* np.diff
Diff(s) == [i \in 1..(IF Len(s) = 0 THEN 0 ELSE Len(s) - 1) |-> s[i + 1] - s[i]]

\* the k-th smallest element of a non-empty sequence
Kth(s, k) ==
    CHOOSE x \in Range(s) :
        /\ Cardinality({i \in 1..Len(s) : s[i] < x}) < k
        /\ Cardinality({i \in 1..Len(s) : s[i] <= x}) >= k

\* Floating point numbers are modelled in halves: [nan, h] is h/2, or not a
\* number.
NaN == [nan |-> TRUE, h |-> 0]
Num(h) == [nan |-> FALSE, h |-> h]

\* a median that takes the middle of the array as it stands, unsorted
MedianUnsorted(s) ==
    IF Len(s) = 0 THEN NaN
    ELSE IF Len(s) % 2 = 1 THEN Num(2 * s[(Len(s) + 1) \div 2])
    ELSE Num(s[Len(s) \div 2] + s[Len(s) \div 2 + 1])

\* np.median: the middle element, or the mean of the two middle ones; nan for
\* an empty array
Median(s) ==
    IF Len(s) = 0 THEN NaN
    ELSE IF Len(s) % 2 = 1 THEN Num(2 * Kth(s, (Len(s) + 1) \div 2))
    ELSE Num(Kth(s, Len(s) \div 2) + Kth(s, Len(s) \div 2 + 1))

TimeUnits == {"days", "hours", "minutes", "seconds"}

\* the group of re.match('(days|hours|minutes|seconds) since.*', units), or ""
MatchScale(units) ==
    IF \E u \in TimeUnits : StartsWith(units, u \o " since")
    THEN CHOOSE u \in TimeUnits : StartsWith(units, u \o " since")
    ELSE ""

\* nchelpers.util.time_to_seconds(x, units)
time_to_seconds(x, units) ==
    IF x.nan THEN NaN
    ELSE Num(x.h * (CASE units = "days" -> 86400
                      [] units = "hours" -> 3600
                      [] units = "minutes" -> 60
                      [] units = "seconds" -> 1))

\* nchelpers.util.resolution_standard_name(seconds)
resolution_standard_name(seconds) ==
    IF seconds.nan THEN "other"
    ELSE CASE seconds.h = 2 * 86400 -> "daily"
           [] seconds.h \in {2 * 86400 * d : d \in 28..31} -> "monthly"
           [] seconds.h \in {2 * 86400 * d : d \in {360, 365, 366}} -> "yearly"
           [] OTHER -> "other"

\* the rest of time_step_size once the units have matched
ScaledMedian(numeric, scale) ==
    IF scale = "" THEN Raise("ValueError")
    ELSE Ok(time_to_seconds(Median(Diff(numeric)), scale))

\* time_step_size for time_steps = self.time_steps
TimeStepSizeOf(time_steps) ==
    IF ~time_steps.ok THEN time_steps
    ELSE ScaledMedian(time_steps.val.numeric, MatchScale(time_steps.val.units))

\* CFDataset.time_step_size
TimeStepSize == TimeStepSizeOf(TimeSteps)

\* time_resolution for self.time_step_size
ResolutionOf(size) ==
    IF size.ok THEN Ok(resolution_standard_name(size.val)) ELSE size

\* CFDataset.time_resolution
TimeResolution == ResolutionOf(TimeStepSize)

\* a format lookup that falls back to the year for any other resolution
TimeFormatDefaultYear(resolution) ==
    CASE resolution = "monthly" -> "%Y%m"
      [] resolution = "daily" -> "%Y%m%d"
      [] OTHER -> "%Y"

\* the format dict of time_range_formatted, "" for .get's None
TimeFormat(resolution) ==
    CASE resolution = "yearly" -> "%Y"
      [] resolution = "monthly" -> "%Y%m"
      [] resolution = "daily" -> "%Y%m%d"
      [] OTHER -> ""

\* '{}-{}'.format(t_min.strftime(format), t_max.strftime(format)) for
\* t_min, t_max = num2date(self.time_range, units, calendar)
FormatRange(format, range, ts) ==
    IF ~range.ok THEN range
    ELSE Ok(StrfTime(Num2Date(range.val[1], ts.val.units, ts.val.calendar), format)
            \o "-"
            \o StrfTime(Num2Date(range.val[2], ts.val.units, ts.val.calendar), format))

\* time_range_formatted once the format is looked up
FormatOrRaise(format) ==
    IF format = "" THEN Raise("ValueError")
    ELSE FormatRange(format, TimeRange, TimeSteps)

\* time_range_formatted for self.time_resolution
TimeRangeFormattedOf(res) ==
    IF ~res.ok THEN res ELSE FormatOrRaise(TimeFormat(res.val))

\* CFDataset.time_range_formatted
TimeRangeFormatted == TimeRangeFormattedOf(TimeResolution)

-----------------------------------------------------------------------------
(* Unified metadata adapter *)

\* UnifiedMetadata._aliases
aliases ==
    [institution |-> [CMIP3 |-> "institute", CMIP5 |-> "institute_id"],
     model |-> [CMIP3 |-> "source", CMIP5 |-> "model_id"],
     emissions |-> [CMIP3 |-> "experiment_id", CMIP5 |-> "experiment_id"],
     run |-> [CMIP3 |-> "realization", CMIP5 |-> "parent_experiment_rip"],
     project |-> [CMIP3 |-> "project_id", CMIP5 |-> "project_id"]]

\* getattr(self.dataset, name) for the name of a global attribute
GetAttr(name) ==
    IF Has(ncattrs, name) THEN Ok(ncattrs[name]) ELSE Raise("AttributeError")

\* the body of the try block of UnifiedMetadata.__getattr__
AliasLookup(item) ==
    IF ~Has(aliases, item) THEN Raise("KeyError")
    ELSE LET project_id == GetAttr("project_id")
         IN IF ~project_id.ok THEN project_id
            ELSE IF ~Has(aliases[item], project_id.val) THEN Raise("KeyError")
            ELSE GetAttr(aliases[item][project_id.val])

\* a lookup that lets the exception of the failing step through
MetadataGetAttrUnwrapped(item) == AliasLookup(item)

\* UnifiedMetadata.__getattr__(item): `except: raise AttributeError`
MetadataGetAttr(item) ==
    LET r == AliasLookup(item)
    IN IF r.ok THEN r ELSE Raise("AttributeError")

-----------------------------------------------------------------------------
(* Unique id synthesizer *)

\* Every variable name of the model.  The iteration order of a Python set of
\* strings is fixed by the string hashes, which depend on the hash seed the
\* interpreter draws when it starts: the same set is iterated in the same
\* order within a process and in another order in another process.  The
\* seeds of the model are two, which give the two orders of a pair of names.
AllVarNames == <<"Y", "lat", "lon", "pr+tas", "tasmax", "time", "time_bnds">>

HashSeeds == {0, 1}

NameIndex(name) == CHOOSE i \in 1..Len(AllVarNames) : AllVarNames[i] = name

HashRank(name) == IF hashseed = 0 THEN NameIndex(name) ELSE 0 - NameIndex(name)

RECURSIVE SetIteration(_)
\* the order in which a set of variable names is iterated
SetIteration(S) ==
    IF S = {} THEN <<>>
    ELSE LET m == CHOOSE x \in S : \A y \in S : HashRank(x) <= HashRank(y)
         IN <<m>> \o SetIteration(S \ {m})

RECURSIVE SelectNotBnds(_)
\* `[v for v in ... if 'bnds' not in v]`
SelectNotBnds(s) ==
    IF Len(s) = 0 THEN <<>>
    ELSE IF Contains(Head(s), "bnds") THEN SelectNotBnds(Tail(s))
    ELSE <<Head(s)>> \o SelectNotBnds(Tail(s))

\* CFDataset.important_varnames (alias dependent_varnames)
ImportantVarnames ==
    SelectNotBnds(SetIteration(DOMAIN variables \ Range(dimensions)))

\* the axes suffix of unique_id for dim_axes = set(dim_axes_from_names().keys())
AxesSuffixOf(dim_axes) ==
    IF dim_axes \subseteq {"X", "Y", "Z", "T"} THEN ""
    ELSE "_dim" \o StrJoin(SortedSeq(dim_axes), "")

AxesSuffix == AxesSuffixOf(DOMAIN DimAxesFromNames(NoArg))

\* the '{vars}_{tres}_{model}_{emissions}_{run}_{trange}{axes}' template
IdFormat(v, tres, model, emissions, run, trange, axes) ==
    v \o "_" \o tres \o "_" \o model \o "_" \o emissions \o "_" \o run
      \o "_" \o trange \o axes

\* a .replace('+', '-', 1): the first occurrence only
IdNormaliseFirst(s) ==
    IF Positions(s, "+") = {} THEN s
    ELSE ReplaceAt(s, CHOOSE i \in Positions(s, "+") :
                         \A j \in Positions(s, "+") : i <= j, "-")

\* the final .replace('+', '-') of unique_id
IdNormalise(s) == StrReplace(s, "+", "-")

\* unique_id for the values of its keyword arguments: they are evaluated in
\* order and the first exception one of them raises is the outcome
UniqueIdOf(v, tres, model, emissions, run, trange, axes) ==
    IF ~tres.ok THEN tres
    ELSE IF ~model.ok THEN model
    ELSE IF ~emissions.ok THEN emissions
    ELSE IF ~run.ok THEN run
    ELSE IF ~trange.ok THEN trange
    ELSE Ok(IdNormalise(IdFormat(v, tres.val, model.val, emissions.val,
                                run.val, trange.val, axes)))

\* CFDataset.unique_id
UniqueId ==
    UniqueIdOf(StrJoin(ImportantVarnames, "-"), TimeResolution,
               MetadataGetAttr("model"), MetadataGetAttr("emissions"),
               MetadataGetAttr("run"), TimeRangeFormatted, AxesSuffix)

-----------------------------------------------------------------------------
(* The datasets of the model *)

\* a netCDF variable
Var(dims, attrs, data) == [dimensions |-> dims, attrs |-> attrs, data |-> data]

\* the variables of a choice: name -> <<>> (no such variable) or <<attrs>>;
\* a coordinate variable has its dimension, any other variable is a scalar
CoordVars(choice, dims) ==
    [n \in {m \in DOMAIN choice : choice[m] # <<>>} |->
        Var(IF n \in Range(dims) THEN <<n>> ELSE <<>>, choice[n][1], <<>>)]

\* the dim_names arguments of the model
NameArgs(names) == {NoArg} \cup {Arg(s) : s \in SeqsUpTo(names, MaxNames)}

TableNames == DOMAIN dim_to_axis

JustOpened == [op |-> "open", arg |-> NoArg, res |-> Ok(<<>>), reads |-> FALSE]

\* the axis family: dimensions and coordinate variables with axis, compress
\* and climatology attributes
AxesDimNames == {"lat", "yc", "time", "Y", "foo"}

LatOptions ==
    {<<>>, <<EmptyMap>>, <<[axis |-> "Z"]>>,
     <<[axis |-> "Z", compress |-> "lat lon"]>>}

TimeOptions ==
    {<<>>, <<EmptyMap>>, <<[climatology |-> ""]>>,
     <<[climatology |-> "climatology_bnds"]>>}

YOptions ==
    {<<>>, <<EmptyMap>>, <<[axis |-> "T"]>>, <<[axis |-> "Z"]>>,
     <<[axis |-> "T", compress |-> "lat lon"]>>}

InitAxes ==
    /\ dimensions \in NoDupSeqsUpTo(AxesDimNames, MaxDims)
    /\ \E a \in LatOptions, b \in TimeOptions, c \in YOptions :
          variables = CoordVars([lat |-> a, time |-> b, Y |-> c], dimensions)
    /\ ncattrs = EmptyMap
    /\ hashseed = 0
    /\ input \in NameArgs(AxesDimNames)
    /\ last = JustOpened
    /\ returned = {}

\* the names family: dimensions only
InitNames ==
    /\ dimensions \in NoDupSeqsUpTo({"lat", "yc", "time"}, MaxDims)
    /\ variables = EmptyMap
    /\ ncattrs = EmptyMap
    /\ hashseed = 0
    /\ input \in NameArgs(TableNames \cup {"foo"})
    /\ last = JustOpened
    /\ returned = {}

\* the metadata family: global attributes
ProjectIds == {"CMIP3", "CMIP5", "CORDEX"}

AliasedAttrs ==
    {"institute", "institute_id", "source", "model_id", "experiment_id",
     "realization", "parent_experiment_rip"}

InitMeta ==
    /\ dimensions = <<>>
    /\ variables = EmptyMap
    /\ \E present \in SUBSET AliasedAttrs, pid \in ProjectIds \cup {""} :
          ncattrs = [a \in present \cup (IF pid = "" THEN {} ELSE {"project_id"}) |->
                        IF a = "project_id" THEN pid ELSE "value of " \o a]
    /\ hashseed = 0
    /\ input \in {Arg(<<item>>) : item \in DOMAIN aliases \cup {"title"}}
    /\ last = JustOpened
    /\ returned = {}

\* the time family: a time variable with units, calendar and values
UnitsStrings ==
    {"days since 1950-01-01", "hours since 1950-01-01",
     "minutes since 1950-01-01", "seconds since 1950-01-01",
     "Days since 1950-01-01", "day since 1950-01-01",
     "days since then", "days since", "days", "days sincerely 1950-01-01",
     "months since 1950-01-01", "in days since 1950-01-01"}

TimeAttrs ==
    {EmptyMap, [units |-> "days since 1950-01-01"], [calendar |-> "365_day"]}
    \cup {[units |-> u, calendar |-> "365_day"] : u \in UnitsStrings}

StepValues == {1, 30, 31}

RECURSIVE Cumulative(_, _)
\* the time values that start at `start` and advance by the given steps
Cumulative(start, steps) ==
    IF Len(steps) = 0 THEN <<start>>
    ELSE <<start>> \o Cumulative(start + Head(steps), Tail(steps))

TimeValues == {<<>>} \cup {Cumulative(0, st) : st \in SeqsUpTo(StepValues, MaxSteps)}

InitTime ==
    /\ ncattrs = EmptyMap
    /\ hashseed = 0
    /\ input = NoArg
    /\ last = JustOpened
    /\ returned = {}
    /\ \/ /\ dimensions = <<"lat">>
          /\ variables = [n \in {"lat"} |-> Var(<<"lat">>, EmptyMap, <<>>)]
       \/ /\ dimensions = <<"lat", "time">>
          /\ variables = [n \in {"lat"} |-> Var(<<"lat">>, EmptyMap, <<>>)]
       \/ /\ dimensions = <<"lat", "time">>
          /\ \E attrs \in TimeAttrs, data \in TimeValues :
                variables = [n \in {"time"} |-> Var(<<"time">>, attrs, data)]

\* the unique id family: a whole dataset
IdCoords ==
    {[dims |-> <<"lon", "lat", "time">>, lat |-> EmptyMap],
     [dims |-> <<"lat", "time">>, lat |-> [axis |-> "Y", compress |-> "lat lon"]],
     [dims |-> <<"lat">>, lat |-> EmptyMap]}

IdStepValues == {1, 7, 30, 365}

IdTimeValues ==
    {[i \in 1..(n + 1) |-> start + (i - 1) * step] :
        start \in {59}, step \in IdStepValues, n \in 0..MaxIdSteps}

IdDependents == {"tasmax", "pr+tas", "time_bnds"}

IdAttrs ==
    {[project_id |-> "CMIP5", model_id |-> t[1], experiment_id |-> t[2],
      parent_experiment_rip |-> t[3]] :
        t \in {<<"CanESM2", "rcp85", "r1i1p1">>,
                <<"CESM1+CAM5", "rcp85", "r1i1p1">>,
                <<"CanESM2", "historical+rcp85", "r1i1p1">>,
                <<"CanESM2", "rcp85", "r1+i1p1">>}}
    \cup {[project_id |-> "CMIP3", source |-> "CGCM3", experiment_id |-> "sresa2",
           realization |-> "run1"],
          [project_id |-> "CMIP5", model_id |-> "CanESM2", experiment_id |-> "rcp85"]}

InitId ==
    /\ \E c \in IdCoords, cal \in {"365_day"}, data \in IdTimeValues,
          deps \in SUBSET IdDependents :
          /\ dimensions = c.dims
          /\ variables =
                [n \in {"lat", "time"} \cup deps |->
                    CASE n = "lat" -> Var(<<"lat">>, c.lat, <<>>)
                      [] n = "time" ->
                            Var(IF "time" \in Range(c.dims) THEN <<"time">> ELSE <<>>,
                                [units |-> "days since 1950-01-01", calendar |-> cal],
                                data)
                      [] n = "time_bnds" -> Var(<<>>, EmptyMap, <<>>)
                      [] OTHER -> Var(c.dims, EmptyMap, <<>>)]
    /\ ncattrs \in IdAttrs
    /\ hashseed \in HashSeeds
    /\ input = NoArg
    /\ last = JustOpened
    /\ returned = {}

-----------------------------------------------------------------------------
(* The operations *)

Dataset == <<dimensions, variables, ncattrs>>

\* dim_names(var_name), the variable being the first name of the input
FirstName(arg) == IF Len(arg.names) > 0 THEN arg.names[1] ELSE ""

CallDimNames ==
    /\ last' = Outcome("dim_names", input, DimNames(FirstName(input)),
                       FirstName(input) = "")
    /\ UNCHANGED <<dimensions, variables, ncattrs, hashseed, input, returned>>

CallDimAxesFromNames ==
    /\ last' = Outcome("dim_axes_from_names", input, Ok(DimAxesFromNames(input)),
                       ReadsDimensions(input))
    /\ UNCHANGED <<dimensions, variables, ncattrs, hashseed, input, returned>>

CallDimAxes ==
    /\ last' = Outcome("dim_axes", input, Ok(DimAxes(input)), ReadsDimensions(input))
    /\ UNCHANGED <<dimensions, variables, ncattrs, hashseed, input, returned>>

CallClimatologyBoundsVarName ==
    /\ last' = Outcome("climatology_bounds_var_name", NoArg,
                       ClimatologyBoundsVarName, TRUE)
    /\ UNCHANGED <<dimensions, variables, ncattrs, hashseed, input, returned>>

CallIsMultiYearMean ==
    /\ last' = Outcome("is_multi_year_mean", NoArg, IsMultiYearMean, TRUE)
    /\ UNCHANGED <<dimensions, variables, ncattrs, hashseed, input, returned>>

CallTimeRange ==
    /\ last' = Outcome("time_range", NoArg, TimeRange, TRUE)
    /\ UNCHANGED <<dimensions, variables, ncattrs, hashseed, input, returned>>

CallTimeStepSize ==
    /\ last' = Outcome("time_step_size", NoArg, TimeStepSize, TRUE)
    /\ UNCHANGED <<dimensions, variables, ncattrs, hashseed, input, returned>>

CallTimeResolution ==
    /\ last' = Outcome("time_resolution", NoArg, TimeResolution, TRUE)
    /\ UNCHANGED <<dimensions, variables, ncattrs, hashseed, input, returned>>

CallTimeRangeFormatted ==
    /\ last' = Outcome("time_range_formatted", NoArg, TimeRangeFormatted, TRUE)
    /\ UNCHANGED <<dimensions, variables, ncattrs, hashseed, input, returned>>

\* self.metadata.<item>
CallMetadata ==
    /\ last' = Outcome("metadata", input, MetadataGetAttr(input.names[1]), FALSE)
    /\ UNCHANGED <<dimensions, variables, ncattrs, hashseed, input, returned>>

CallImportantVarnames ==
    /\ last' = Outcome("important_varnames", NoArg, Ok(ImportantVarnames), FALSE)
    /\ UNCHANGED <<dimensions, variables, ncattrs, hashseed, input, returned>>

\* unique_id; the string it returns is kept in `returned`
CallUniqueId ==
    /\ last' = Outcome("unique_id", NoArg, UniqueId, TRUE)
    /\ returned' = IF last'.res.ok THEN returned \cup {last'.res.val} ELSE returned
    /\ UNCHANGED <<dimensions, variables, ncattrs, hashseed, input>>

\* the file is opened again in a new interpreter process, which draws its own
\* hash seed; the file is not touched
Reopen ==
    /\ hashseed' \in HashSeeds
    /\ last' = JustOpened
    /\ UNCHANGED <<dimensions, variables, ncattrs, input, returned>>

-----------------------------------------------------------------------------
(* The specifications: the operations of a component over its datasets *)

NextNames == CallDimAxesFromNames

SpecNames == InitNames /\ [][NextNames]_vars

NextAxes ==
    \/ CallDimNames
    \/ CallImportantVarnames
    \/ CallDimAxes
    \/ CallClimatologyBoundsVarName
    \/ CallIsMultiYearMean

SpecAxes == InitAxes /\ [][NextAxes]_vars

NextMeta == CallMetadata

SpecMeta == InitMeta /\ [][NextMeta]_vars

NextTime ==
    \/ CallTimeRange
    \/ CallTimeStepSize
    \/ CallTimeResolution

SpecTime == InitTime /\ [][NextTime]_vars

NextId ==
    \/ CallTimeRangeFormatted
    \/ CallUniqueId
    \/ Reopen

SpecId == InitId /\ [][NextId]_vars

-----------------------------------------------------------------------------
(* The claims *)

\* the axis codes the specification documents for the thirteen table names
DocumentedAxis(name) ==
    CASE name = "lat" -> "Y" [] name = "latitude" -> "Y"
      [] name = "lon" -> "X" [] name = "longitude" -> "X"
      [] name = "xc" -> "X" [] name = "yc" -> "Y"
      [] name = "x" -> "X" [] name = "y" -> "Y"
      [] name = "time" -> "T" [] name = "timeofyear" -> "T"
      [] name = "plev" -> "Z" [] name = "lev" -> "Z" [] name = "level" -> "Z"
      [] OTHER -> ""

\* the names a call works on: the given ones, or the dataset's dimensions
NamesUsed == IF input.given /\ Len(input.names) > 0 THEN input.names ELSE dimensions

\* C1: for a dataset with a dimension `lat` and a variable `lat` with
\* axis="Z", dim_axes() reports Z for `lat`, and S if the variable also has a
\* `compress` attribute.
C1_AttributeOverridesName ==
    (/\ last.op = "dim_axes"
     /\ ~input.given
     /\ "lat" \in Range(dimensions)
     /\ Has(variables, "lat")
     /\ Has(variables["lat"].attrs, "axis")
     /\ variables["lat"].attrs["axis"] = "Z")
    => /\ last.res.ok
       /\ Has(last.res.val, "lat")
       /\ last.res.val["lat"] =
             IF Has(variables["lat"].attrs, "compress") THEN "S" ELSE "Z"

\* the dataset has a dimension that dim_axes() resolves to T and whose
\* variable carries a non-empty climatology attribute
TimeAxisWithClimatology(d) ==
    /\ Has(DimAxes(NoArg), d)
    /\ DimAxes(NoArg)[d] = "T"
    /\ Has(variables, d)
    /\ Has(variables[d].attrs, "climatology")
    /\ variables[d].attrs["climatology"] # ""

\* C2: is_multi_year_mean is true exactly when a dimension resolves to T and
\* its variable has a non-empty climatology attribute, and
\* climatology_bounds_var_name is then the value of that attribute.
C2_MultiYearMeanIffClimatology ==
    /\ last.op = "is_multi_year_mean" =>
          /\ last.res.ok
          /\ last.res.val <=> \E d \in Range(dimensions) : TimeAxisWithClimatology(d)
    /\ last.op = "climatology_bounds_var_name" =>
          \A d \in Range(dimensions) :
              TimeAxisWithClimatology(d) =>
                  last.res = Ok(Some(variables[d].attrs["climatology"]))

\* a dimension whose variable carries the compress attribute: an S axis
HasCompressedAxis ==
    \E d \in Range(dimensions) :
        Has(variables, d) /\ Has(variables[d].attrs, "compress")

\* C3: the unique id has a `_dim...` suffix exactly when the dataset has an
\* axis outside X, Y, Z, T, such as a compressed S axis.
C3_ExtraAxisGivesSuffix ==
    (last.op = "unique_id" /\ last.res.ok)
    => (HasCompressedAxis <=> Contains(last.res.val, "_dim"))

\* C4: dim_axes() of an explicitly empty sequence is the empty mapping and
\* the dimension list of the dataset is not read.
C4_EmptyInputEmptyMapping ==
    (last.op = "dim_axes" /\ input.given /\ Len(input.names) = 0)
    => /\ last.res = Ok(EmptyMap)
       /\ ~last.reads

\* C5: dim_axes_from_names never fails; every value of its result is a table
\* name filed under its documented code, and of the names sharing a code the
\* last one in the order of the input is the one kept.
C5_AxesFromNames ==
    last.op = "dim_axes_from_names" =>
        /\ last.res.ok
        /\ \A c \in DOMAIN last.res.val :
              /\ last.res.val[c] \in Range(NamesUsed)
              /\ DocumentedAxis(last.res.val[c]) = c
        /\ \A i \in 1..Len(NamesUsed) :
              DocumentedAxis(NamesUsed[i]) # "" =>
                  /\ Has(last.res.val, DocumentedAxis(NamesUsed[i]))
                  /\ (\A j \in (i + 1)..Len(NamesUsed) :
                          DocumentedAxis(NamesUsed[j]) # DocumentedAxis(NamesUsed[i]))
                     => last.res.val[DocumentedAxis(NamesUsed[i])] = NamesUsed[i]

C5_Witness ==
    /\ last.op = "dim_axes_from_names"
    /\ input = Arg(<<"lat", "yc">>)
    /\ last.res = Ok([Y |-> "yc"])

\* the cases in which the lookup of a concept resolves
Resolvable(item) ==
    /\ item \in {"institution", "model", "emissions", "run", "project"}
    /\ Has(ncattrs, "project_id")
    /\ ncattrs["project_id"] \in {"CMIP3", "CMIP5"}
    /\ Has(ncattrs, aliases[item][ncattrs["project_id"]])

\* C6: the lookup of a concept returns the attribute the alias table names for
\* the project family of the dataset (model: source under CMIP3, model_id under
\* CMIP5); in every other case it fails, always with the same kind of error.
C6_UnifiedMetadata ==
    last.op = "metadata" =>
        /\ Resolvable(input.names[1]) =>
              last.res = Ok(ncattrs[aliases[input.names[1]][ncattrs["project_id"]]])
        /\ (Resolvable(input.names[1]) /\ input.names[1] = "model") =>
              last.res = Ok(ncattrs[IF ncattrs["project_id"] = "CMIP3"
                                    THEN "source" ELSE "model_id"])
        /\ ~Resolvable(input.names[1]) =>
              (~last.res.ok /\ last.res.err = "AttributeError")

C6_Witness ==
    /\ last.op = "metadata"
    /\ input = Arg(<<"model">>)
    /\ Has(ncattrs, "project_id") /\ ncattrs["project_id"] = "CMIP3"
    /\ Has(ncattrs, "model_id")
    /\ last.res = Ok("value of source")

\* s with every '+' turned into '-', character by character
Minus(s) ==
    StrJoin([i \in 1..Len(s) |->
                IF SubSeq(s, i, i) = "+" THEN "-" ELSE SubSeq(s, i, i)], "")

\* C7: when every component resolves, unique_id is
\* vars_tres_model_emissions_run_trange followed by the axes suffix, with
\* every '+' replaced by '-', and so holds no '+'.
C7_UniqueIdFormat ==
    last.op = "unique_id" =>
        /\ last.res.ok <=>
              /\ TimeResolution.ok /\ TimeRangeFormatted.ok
              /\ MetadataGetAttr("model").ok /\ MetadataGetAttr("emissions").ok
              /\ MetadataGetAttr("run").ok
        /\ last.res.ok =>
              /\ ~Contains(last.res.val, "+")
              /\ last.res.val =
                    Minus(StrJoin(ImportantVarnames, "-")) \o "_"
                    \o TimeResolution.val \o "_"
                    \o Minus(MetadataGetAttr("model").val) \o "_"
                    \o Minus(MetadataGetAttr("emissions").val) \o "_"
                    \o Minus(MetadataGetAttr("run").val) \o "_"
                    \o TimeRangeFormatted.val \o AxesSuffix

C7_Witness ==
    /\ last.op = "unique_id"
    /\ Has(variables, "pr+tas")
    /\ ncattrs["project_id"] = "CMIP5" /\ ncattrs["model_id"] = "CESM1+CAM5"
    /\ last.res = Ok("pr-tas-tasmax_monthly_CESM1-CAM5_rcp85_r1i1p1_195003-195004")

\* the decoded least and greatest time value of the dataset
DecodedMin ==
    Num2Date(SeqMin(TimeSteps.val.numeric), TimeSteps.val.units, TimeSteps.val.calendar)
DecodedMax ==
    Num2Date(SeqMax(TimeSteps.val.numeric), TimeSteps.val.units, TimeSteps.val.calendar)

\* the fields of a date the resolution class calls for
Fields(d, resolution) ==
    CASE resolution = "yearly" -> Pad4(d.year)
      [] resolution = "monthly" -> Pad4(d.year) \o Pad2(d.month)
      [] resolution = "daily" -> Pad4(d.year) \o Pad2(d.month) \o Pad2(d.day)

Formattable ==
    TimeResolution.ok /\ TimeResolution.val \in {"yearly", "monthly", "daily"}

\* C8: time_range_formatted is '<min>-<max>' with the year, the year and
\* month, or the year, month and day of the decoded least and greatest time
\* value for a yearly, monthly or daily resolution; for any other resolution it
\* fails, and unique_id fails with it.
C8_TimeRangeFormatted ==
    /\ last.op = "time_range_formatted" =>
          IF Formattable
          THEN last.res = Ok(Fields(DecodedMin, TimeResolution.val) \o "-"
                             \o Fields(DecodedMax, TimeResolution.val))
          ELSE ~last.res.ok
    /\ (last.op = "unique_id" /\ ~Formattable) => ~last.res.ok

C8_Witness ==
    /\ last.op = "time_range_formatted"
    /\ TimeResolution = Ok("daily")
    /\ last.res = Ok("19500301-19500303")

\* the units string of the time variable, when it has one
TimeUnitsString == variables["time"].attrs["units"]

HasTimeUnits ==
    /\ "time" \in Range(dimensions)
    /\ Has(variables, "time")
    /\ Has(variables["time"].attrs, "units")

UnitSince(units) ==
    \/ StartsWith(units, "days since") \/ StartsWith(units, "hours since")
    \/ StartsWith(units, "minutes since") \/ StartsWith(units, "seconds since")

\* the seconds in the unit a units string starts with
SecondsPer(units) ==
    CASE StartsWith(units, "days") -> 86400
      [] StartsWith(units, "hours") -> 3600
      [] StartsWith(units, "minutes") -> 60
      [] StartsWith(units, "seconds") -> 1

Steps == Diff(variables["time"].data)

DatasetReadOnly == [][UNCHANGED Dataset]_vars

\* C10: every invocation of unique_id against the unchanged dataset returns
\* the same string.
C10_UniqueIdDeterministic == Cardinality(returned) <= 1

====
